---- MODULE Spec2Model ----
(***************************************************************************)
(* Model of golife (src/game_of_life.go): a two-colour Game of Life with   *)
(* a four-step decay, on a toroidal grid, updated by numCPU goroutines     *)
(* into a second buffer, driven by visualize() and by main()'s loop.       *)
(***************************************************************************)
EXTENDS Naturals, Integers, FiniteSets, Sequences, TLC

(* ------------------------------ bounds -------------------------------- *)
\* gridWidth and gridHeight are 500 in the source; the model draws them
\* from 1..MaxW and 1..MaxH, with at most MaxCells cells in the grid.
MaxW == 3
MaxH == 2
MaxCells == 6
\* runtime.NumCPU() is 1 or MaxCPU.
MaxCPU == 2
\* Cells that are not Empty in an initial grid of Spec.
MaxLive == 4
\* The specification of Update's slices takes gridWidth from 1..MaxRows
\* and runtime.NumCPU() from 1..MaxSliceCPU.
MaxRows == 5
MaxSliceCPU == 4
\* The specification over every configuration keeps to grids of at most
\* MaxConfigCells cells.
MaxConfigCells == 3

(* ------------------------- program constants -------------------------- *)
EMPTY == 0
BLUE == 1
ORANGE == 2
DEAD == 3
\* the last decay step, the literal 6 of Update
DEAD3 == 6
\* uint8 arithmetic
Byte == 256
\* The field mask 0xFFF and the shift of y in a sparse-pixel word.
Mask == 4095
YShift == 12
\* The bytes of a uint32.
WordBytes == 4

Protocols == {"Off", "DenseCells", "SparsePixels", "DensePixels"}

\* The configuration the source is compiled with.
PROTOCOL == "Off"
VISUAL_OUT == TRUE

VARIABLES
  W,          \* gridWidth
  H,          \* gridHeight
  numCPU,     \* runtime.NumCPU()
  visualOut,  \* VISUAL_OUT
  protocol,   \* PROTOCOL
  canFail,    \* whether a Write to os.Stdout can fail
  grid,       \* Game.grid, grid[x][y]
  nextGrid,   \* Game.nextGrid
  pc,         \* position of the main goroutine
  upc,        \* position of the running Update call
  ui,         \* Update's loop variable i
  wk,         \* the worker goroutines of the running Update
  wg,         \* Update's WaitGroup counter
  owg,        \* the WaitGroup counter of main's loop
  ppc,        \* position of main's present goroutine
  emitted,    \* times present() handed the current generation to an encoder
  frame,      \* the grid present() handed to the encoder in this generation
  unswapped,  \* an Update has returned and Swap has not been called since
  quit,       \* visualize() has observed a quit event or a pressed Escape
  gridBuf,    \* the buffer Game.grid refers to
  nextBuf,    \* the buffer Game.nextGrid refers to
  readBuf,    \* the buffer the running encoder reads
  writers,    \* writers[x][y]: the workers that wrote cell (x, y) of the
              \* next grid in this generation, in order
  out,        \* the bytes written to stdout for this generation
  err,        \* the error the latest encoder call returned
  age         \* age[x][y]: the generations since cell (x, y) of the current
              \* grid became Dead, 5 for five or more or never

vars == <<W, H, numCPU, visualOut, protocol, canFail, grid, nextGrid, pc, upc, ui, wk,
          wg, owg, ppc, emitted, frame, unswapped, quit, gridBuf, nextBuf,
          readBuf, writers, out, err, age>>

\* What only Swap, the workers' writes and present() change.
aux == <<gridBuf, nextBuf, readBuf, writers, out, err, age>>

config == <<W, H, numCPU, visualOut, protocol, canFail>>

(* ------------------------------ the grid ------------------------------ *)
Xs == 0..(W - 1)
Ys == 0..(H - 1)

\* grid[i][j] = uint8(rand.Int()) % 3
InitStates == {r % 3 : r \in 0..(Byte - 1)}

\* make([]uint8, gridHeight): zero-filled
ZeroGrid(w, h) == [x \in 0..(w - 1) |-> [y \in 0..(h - 1) |-> 0]]

\* Mutant of Wrap: the edge is clamped instead of wrapped around.
WrapClamped(c, d, n) ==
  IF c + d < 0 THEN 0 ELSE IF c + d >= n THEN n - 1 ELSE c + d

\* nx := (x + i + gridWidth) % gridWidth
Wrap(c, d, n) == (c + d + n) % n

\* The double loop of CountNeighbors, iteration k = 3*(i+1) + (j+1), carrying
\* the two counters.
RECURSIVE CountLoop(_, _, _, _, _, _, _, _)
CountLoop(g, w, h, x, y, k, b, o) ==
  IF k > 8 THEN [blue |-> b, orange |-> o]
  ELSE LET i == (k \div 3) - 1
           j == (k % 3) - 1
       IN IF i = 0 /\ j = 0
          THEN CountLoop(g, w, h, x, y, k + 1, b, o)
          ELSE LET v == g[Wrap(x, i, w)][Wrap(y, j, h)]
               IN CountLoop(g, w, h, x, y, k + 1,
                            IF v = BLUE THEN b + 1 ELSE b,
                            IF v = ORANGE THEN o + 1 ELSE o)

\* Mutant of CountNeighbors: a decaying neighbour counts as Blue.
CountNeighborsDecaying(g, w, h, x, y) ==
  LET c == CountLoop(g, w, h, x, y, 0, 0, 0)
      d == {k \in 0..8 : k # 4 /\ g[Wrap(x, (k \div 3) - 1, w)]
                                    [Wrap(y, (k % 3) - 1, h)] >= DEAD}
  IN [blue |-> c.blue + Cardinality(d), orange |-> c.orange]

CountNeighbors(g, w, h, x, y) == CountLoop(g, w, h, x, y, 0, 0, 0)

(* ------------------------- the transition rule ------------------------ *)
\* Mutant of DecayStep: the last decay step is not sent back to EMPTY.
DecayStepNoReset(cell) == (cell + 1) % Byte

\* Mutant of DecayStep: the decay ends one step early, at DEAD + 2.
DecayStepShort(cell) == IF cell >= DEAD + 2 THEN EMPTY ELSE (cell + 1) % Byte

\* "Handle dead": g.grid[x][y] >= DEAD
DecayStep(cell) == IF cell = DEAD3 THEN EMPTY ELSE (cell + 1) % Byte

\* "Handle living": the condition under which Update writes DEAD
LivingDies(count) == ~(3 > count) /\ ~(count > 5)

\* Mutant of BirthColour: the colour does not depend on the counts.
BirthColourAlwaysOrange(b, o) == ORANGE

\* Mutant of BirthColour: the comparison is turned around.
BirthColourSwapped(b, o) == IF o > b THEN BLUE ELSE ORANGE

\* "Handle empty": the colour written when count == 3
BirthColour(b, o) == IF b > o THEN BLUE ELSE ORANGE

\* The body of Update's inner loop: the value written to nextGrid[x][y].
CellNext(g, w, h, x, y) ==
  LET cell == g[x][y]
  IN IF cell >= DEAD THEN DecayStep(cell)
     ELSE LET c == CountNeighbors(g, w, h, x, y)
              count == c.blue + c.orange
          IN IF cell = BLUE \/ cell = ORANGE
             THEN IF LivingDies(count) THEN DEAD ELSE cell
             ELSE IF cell = EMPTY /\ count = 3
                  THEN BirthColour(c.blue, c.orange)
                  ELSE cell

(* --------------------------- Update's slices -------------------------- *)
\* Mutant of rowsPerWorker: the division rounds up.
rowsPerWorkerCeil(n, p) == (n + p - 1) \div p

rowsPerWorker(n, p) == n \div p

\* Mutant of startRow: every worker starts at row 0.
startRowFromZero(i, n, p) == 0

startRow(i, n, p) == i * rowsPerWorker(n, p)

\* Mutant of endRow: the last worker does not take the remainder.
endRowNoRemainder(i, n, p) == startRow(i, n, p) + rowsPerWorker(n, p)

endRow(i, n, p) ==
  IF i = p - 1 THEN n ELSE startRow(i, n, p) + rowsPerWorker(n, p)

\* Mutant of WaitDone: Wait returns without waiting.
WaitDoneAtOnce(counter) == TRUE

\* wg.Wait() returns
WaitDone(counter) == counter = 0

Workers == 0..(numCPU - 1)

NoWorker == [st |-> "none", x |-> 0, y |-> 0, end |-> 0]

NoWorkers == [i \in Workers |-> NoWorker]

\* No grid has been handed to an encoder.
NoFrame == <<>>
\* No encoder is reading.
NoBuf == "none"
\* No cell of the next grid has been written in this generation.
NoWriters == [x \in Xs |-> [y \in Ys |-> <<>>]]

(* ------------------------------- Init --------------------------------- *)
\* The state after NewGame() on a w x h grid.
NewGame(w, h) ==
  /\ W = w
  /\ H = h
  /\ grid \in [Xs -> [Ys -> InitStates]]
  /\ nextGrid = ZeroGrid(W, H)
  /\ pc = "main"
  /\ upc = "idle"
  /\ ui = 0
  /\ wk = NoWorkers
  /\ wg = 0
  /\ owg = 0
  /\ ppc = "idle"
  /\ emitted = 0
  /\ frame = NoFrame
  /\ unswapped = FALSE
  /\ quit = FALSE
  /\ gridBuf = "A"
  /\ nextBuf = "B"
  /\ readBuf = NoBuf
  /\ writers = NoWriters
  /\ out = <<>>
  /\ err = "none"
  /\ age = [x \in Xs |-> [y \in Ys |-> 5]]

\* The cells of g that are not Empty.
Population(g) == Cardinality({c \in Xs \X Ys : g[c[1]][c[2]] # EMPTY})

\* The program as compiled, on every grid within the bounds that has at most
\* MaxLive cells that are not Empty.
Init ==
  /\ visualOut = VISUAL_OUT
  /\ protocol = PROTOCOL
  /\ canFail = FALSE
  /\ numCPU \in {1, MaxCPU}
  /\ \E w \in 1..MaxW, h \in 1..MaxH : w * h <= MaxCells /\ NewGame(w, h)
  /\ Population(grid) <= MaxLive

\* Every configuration of PROTOCOL and VISUAL_OUT, on the smaller grids.
InitConfig ==
  /\ visualOut \in BOOLEAN
  /\ protocol \in Protocols
  /\ canFail = FALSE
  /\ numCPU \in {1, MaxCPU}
  /\ \E w \in 1..MaxW, h \in 1..MaxH : w * h <= MaxConfigCells /\ NewGame(w, h)

\* The program as compiled on an Empty grid one cell high, for every width
\* up to MaxRows and every worker count up to MaxSliceCPU.
InitSlices ==
  /\ visualOut = VISUAL_OUT
  /\ protocol = PROTOCOL
  /\ canFail = FALSE
  /\ numCPU \in 1..MaxSliceCPU
  /\ \E w \in 1..MaxRows : grid = ZeroGrid(w, 1) /\ NewGame(w, 1)

\* Every configuration again, with an os.Stdout whose Writes can fail.
InitFail ==
  /\ visualOut \in BOOLEAN
  /\ protocol \in Protocols
  /\ canFail = TRUE
  /\ numCPU \in {1, MaxCPU}
  /\ \E w \in 1..MaxW, h \in 1..MaxH : w * h <= MaxConfigCells /\ NewGame(w, h)

(* ------------------------------ Update -------------------------------- *)
\* One iteration of "for i := range numCPU": wg.Add(1) and the go statement.
Spawn ==
  /\ upc = "spawn"
  /\ ui < numCPU
  /\ wg' = wg + 1
  /\ wk' = [wk EXCEPT ![ui] = [st |-> "run", x |-> startRow(ui, W, numCPU),
                               y |-> 0, end |-> endRow(ui, W, numCPU)]]
  /\ ui' = ui + 1
  /\ UNCHANGED <<config, aux, grid, nextGrid, pc, upc, owg, ppc, emitted, frame,
                unswapped, quit>>

\* The loop is over: Update reaches wg.Wait().
SpawnEnd ==
  /\ upc = "spawn"
  /\ ui = numCPU
  /\ upc' = "wait"
  /\ UNCHANGED <<config, aux, grid, nextGrid, pc, ui, wk, wg, owg, ppc, emitted,
                frame, unswapped, quit>>

\* Mutant of WorkerCell: the successor is written in place, into g.grid.
WorkerCellInPlace(i) ==
  /\ wk[i].st = "run"
  /\ wk[i].x < wk[i].end
  /\ LET x == wk[i].x
         y == wk[i].y
     IN /\ grid' = [grid EXCEPT ![x][y] = CellNext(grid, W, H, x, y)]
        /\ writers' = [writers EXCEPT ![x][y] = Append(@, i)]
        /\ wk' = [wk EXCEPT ![i] = IF y + 1 < H
                                   THEN [@ EXCEPT !.y = y + 1]
                                   ELSE [@ EXCEPT !.x = x + 1, !.y = 0]]
  /\ UNCHANGED <<config, nextGrid, pc, upc, ui, wg, owg, ppc, emitted, frame,
                unswapped, quit, gridBuf, nextBuf, readBuf, out, err, age>>

\* One iteration of a worker's inner loop: cell (x, y) of its slice.
WorkerCell(i) ==
  /\ wk[i].st = "run"
  /\ wk[i].x < wk[i].end
  /\ LET x == wk[i].x
         y == wk[i].y
     IN /\ nextGrid' = [nextGrid EXCEPT ![x][y] = CellNext(grid, W, H, x, y)]
        /\ writers' = [writers EXCEPT ![x][y] = Append(@, i)]
        /\ wk' = [wk EXCEPT ![i] = IF y + 1 < H
                                   THEN [@ EXCEPT !.y = y + 1]
                                   ELSE [@ EXCEPT !.x = x + 1, !.y = 0]]
  /\ UNCHANGED <<config, grid, pc, upc, ui, wg, owg, ppc, emitted, frame,
                unswapped, quit, gridBuf, nextBuf, readBuf, out, err, age>>

\* A worker leaves its loops: the deferred wg.Done(), and the goroutine ends.
WorkerDone(i) ==
  /\ wk[i].st = "run"
  /\ wk[i].x >= wk[i].end
  /\ wk' = [wk EXCEPT ![i] = NoWorker]
  /\ wg' = wg - 1
  /\ UNCHANGED <<config, aux, grid, nextGrid, pc, upc, ui, owg, ppc, emitted,
                frame, unswapped, quit>>

\* wg.Wait() returns and so does Update.
UpdateReturn ==
  /\ upc = "wait"
  /\ WaitDone(wg)
  /\ upc' = "ret"
  /\ ui' = 0
  /\ unswapped' = TRUE
  /\ UNCHANGED <<config, aux, grid, nextGrid, pc, wk, wg, owg, ppc, emitted,
                frame, quit>>

(* ------------------------------- Swap --------------------------------- *)
\* The Game value: its two slice fields, each with the cells it holds and
\* the buffer it refers to.
Game ==
  [grid |-> grid, nextGrid |-> nextGrid, gridBuf |-> gridBuf,
   nextBuf |-> nextBuf]

\* Mutant of Swap: the fields are assigned one after the other.
SwapSequential(g) ==
  [grid |-> g.nextGrid, nextGrid |-> g.nextGrid, gridBuf |-> g.nextBuf,
   nextBuf |-> g.nextBuf]

\* g.grid, g.nextGrid = g.nextGrid, g.grid
Swap(g) ==
  [grid |-> g.nextGrid, nextGrid |-> g.grid, gridBuf |-> g.nextBuf,
   nextBuf |-> g.gridBuf]

\* game.Swap() on the Game of the program.
SwapGrids ==
  /\ grid' = Swap(Game).grid
  /\ nextGrid' = Swap(Game).nextGrid
  /\ gridBuf' = Swap(Game).gridBuf
  /\ nextBuf' = Swap(Game).nextBuf

(* ------------------------------ encoders ------------------------------ *)
RECURSIVE Concat(_)
\* The bytes of consecutive appends or Writes, in order.
Concat(seqs) ==
  IF seqs = <<>> THEN <<>> ELSE Head(seqs) \o Concat(Tail(seqs))

Min(a, b) == IF a < b THEN a ELSE b

\* Mutant of PackCell: x and y change places in the word.
PackCellSwapped(x, y, state) ==
  LET low == (y % (Mask + 1)) + ((x % (Mask + 1)) * (2 ^ YShift))
  IN <<low % Byte, (low \div Byte) % Byte, (low \div (Byte * Byte)) % Byte,
       state % Byte>>

\* binary.LittleEndian.PutUint32 of
\* uint32(x&0xFFF) | uint32((y&0xFFF)<<12) | (uint32(state) << 24):
\* the three fields share no bit, so the low 24 bits are their sum and the
\* top byte is the state.
PackCell(x, y, state) ==
  LET low == (x % (Mask + 1)) + ((y % (Mask + 1)) * (2 ^ YShift))
  IN <<low % Byte, (low \div Byte) % Byte, (low \div (Byte * Byte)) % Byte,
       state % Byte>>

\* binary.LittleEndian.PutUint32 of 0xFFFFFFFF.
EofMarker == [i \in 1..WordBytes |-> Byte - 1]

\* The Writes of outputSparsePixels on g: one per row, then the marker.
outputSparsePixels(g) ==
  [y \in 1..H |->
     Concat([x \in 1..W |-> IF g[x - 1][y - 1] = EMPTY
                            THEN <<>>
                            ELSE PackCell(x - 1, y - 1, g[x - 1][y - 1])])]
  \o <<EofMarker>>

\* binary.LittleEndian.PutUint32 of rgba(r, g, b).
rgba(r, g, b) == <<b, g, r, 0>>

\* The colour ouputDensePixels gives a state.
PixelColour(state) ==
  CASE state = BLUE -> rgba(0, 0, 255)
    [] state = ORANGE -> rgba(255, 128, 0)
    [] state = DEAD -> rgba(0, 0, 0)
    [] state = DEAD + 1 -> rgba(136, 136, 136)
    [] state = DEAD + 2 -> rgba(160, 160, 160)
    [] state = DEAD + 3 -> rgba(238, 238, 238)
    [] OTHER -> rgba(255, 255, 255)

\* The Writes of ouputDensePixels on g: one per row.
ouputDensePixels(g) ==
  [y \in 1..H |-> Concat([x \in 1..W |-> PixelColour(g[x - 1][y - 1])])]

\* The Writes of ouputDenseCells on g: g.grid[y] for y = 0, 1, ..., which is
\* column y of the grid, as long as the grid has a column y.
ouputDenseCells(g) ==
  [y \in 1..Min(W, H) |-> [j \in 1..H |-> g[y - 1][j - 1]]]

\* g.grid[y] is indexed out of range once y reaches gridWidth.
Panics(p) == p = "DenseCells" /\ H > W

\* The Writes the encoder of protocol p makes on g while none fails.
Writes(p, g) ==
  CASE p = "DensePixels" -> ouputDensePixels(g)
    [] p = "DenseCells" -> ouputDenseCells(g)
    [] p = "SparsePixels" -> outputSparsePixels(g)
    [] OTHER -> <<>>

(* -------------------------------- Draw -------------------------------- *)
\* The point groups Draw has collected from g when it starts to draw them;
\* a group is drawn, in one DrawPoints call, when it is not empty.  Every
\* case of the switch but ORANGE appends to bluePoints.
Draw(g) ==
  [bluePoints |-> {c \in Xs \X Ys :
                     g[c[1]][c[2]] \in {BLUE, DEAD, DEAD + 1, DEAD + 2, DEAD + 3}},
   orangePoints |-> {c \in Xs \X Ys : g[c[1]][c[2]] = ORANGE},
   blackPoints |-> {},
   darkPoints |-> {},
   greyPoints |-> {}]

(* ------------------------------ present ------------------------------- *)
\* Mutant of Emits: the switch of present() lacks the pixel formats.
EmitsDenseCellsOnly(p) == p = "DenseCells"

\* present() calls an encoder unless PROTOCOL is Off.
Emits(p) == p # "Off"

(* ----------------------------- visualize ------------------------------ *)
\* main: if VISUAL_OUT { game.visualize() }
MainStart ==
  /\ pc = "main"
  /\ pc' = IF visualOut THEN "vPoll" ELSE "mFork"
  /\ UNCHANGED <<config, aux, grid, nextGrid, upc, ui, wk, wg, owg, ppc, emitted,
                frame, unswapped, quit>>

\* The event loop finds a QuitEvent or a pressed Escape: visualize returns
\* to main, which goes on to its loop.
VisQuit ==
  /\ pc = "vPoll"
  /\ quit' = TRUE
  /\ pc' = "mFork"
  /\ UNCHANGED <<config, aux, grid, nextGrid, upc, ui, wk, wg, owg, ppc, emitted,
                frame, unswapped>>

\* No such event: printFPS, Clear, and the call of game.Update().
VisUpdate ==
  /\ pc = "vPoll"
  /\ pc' = "vUpdate"
  /\ upc' = "spawn"
  /\ UNCHANGED <<config, aux, grid, nextGrid, ui, wk, wg, owg, ppc, emitted,
                frame, unswapped, quit>>

\* game.Update() has returned: game.Draw(renderer), renderer.Present().
VisDraw ==
  /\ pc = "vUpdate"
  /\ upc = "ret"
  /\ upc' = "idle"
  /\ pc' = "vSwap"
  /\ UNCHANGED <<config, aux, grid, nextGrid, ui, wk, wg, owg, ppc, emitted,
                frame, unswapped, quit>>

\* game.Swap() at the end of the loop body.
VisSwap ==
  /\ pc = "vSwap"
  /\ SwapGrids
  /\ emitted' = 0
  /\ pc' = "vPoll"
  /\ frame' = NoFrame
  /\ unswapped' = FALSE
  /\ writers' = NoWriters
  /\ out' = <<>>
  /\ age' = [x \in Xs |-> [y \in Ys |->
               IF grid'[x][y] = DEAD THEN 0 ELSE Min(age[x][y] + 1, 5)]]
  /\ UNCHANGED <<config, upc, ui, wk, wg, owg, ppc, quit, readBuf, err>>

(* ----------------------------- main's loop ---------------------------- *)
\* wg.Add(1); go func() { game.present() }
MainForkPresent ==
  /\ pc = "mFork"
  /\ owg' = owg + 1
  /\ ppc' = "ready"
  /\ pc' = "mFork2"
  /\ UNCHANGED <<config, aux, grid, nextGrid, upc, ui, wk, wg, emitted, frame,
                unswapped, quit>>

\* wg.Add(1); go func() { game.Update() }
MainForkUpdate ==
  /\ pc = "mFork2"
  /\ owg' = owg + 1
  /\ upc' = "spawn"
  /\ pc' = "mWait"
  /\ UNCHANGED <<config, aux, grid, nextGrid, ui, wk, wg, ppc, emitted, frame,
                unswapped, quit>>

\* A step of the present goroutine. It first enters the encoder present()
\* selects, which starts to read g.grid. Then the encoder makes its Writes
\* until one fails, the error it returns is dropped by present(), and the
\* deferred wg.Done() runs. With PROTOCOL Off there is no encoder and the
\* goroutine is done in one step. An index out of range ends the process:
\* the goroutine never reports to the WaitGroup.
Present ==
  /\ ppc \in {"ready", "reading"}
  /\ IF ppc = "ready" /\ Emits(protocol)
     THEN /\ ppc' = "reading"
          /\ emitted' = emitted + 1
          /\ frame' = grid
          /\ readBuf' = gridBuf
          /\ UNCHANGED <<owg, out, err>>
     ELSE \E k \in IF canFail THEN 0..Len(Writes(protocol, grid))
                              ELSE {Len(Writes(protocol, grid))} :
          LET all == k = Len(Writes(protocol, grid))
          IN /\ out' = Concat(SubSeq(Writes(protocol, grid), 1, k))
             /\ err' = IF all THEN "none" ELSE "write"
             /\ ppc' = IF all /\ Panics(protocol) THEN "panic" ELSE "idle"
             /\ owg' = IF all /\ Panics(protocol) THEN owg ELSE owg - 1
             /\ readBuf' = NoBuf
             /\ UNCHANGED <<emitted, frame>>
  /\ UNCHANGED <<config, grid, nextGrid, pc, upc, ui, wk, wg, unswapped,
                quit, gridBuf, nextBuf, writers, age>>

\* The Update goroutine: Update has returned, the deferred wg.Done().
MainUpdateDone ==
  /\ pc \in {"mFork2", "mWait"}
  /\ upc = "ret"
  /\ upc' = "idle"
  /\ owg' = owg - 1
  /\ UNCHANGED <<config, aux, grid, nextGrid, pc, ui, wk, wg, ppc, emitted, frame,
                unswapped, quit>>

\* Mutant of MainWait: main's loop goes on to Swap without waiting.
MainWaitNoBarrier ==
  /\ pc = "mWait"
  /\ pc' = "mSwap"
  /\ UNCHANGED <<config, aux, grid, nextGrid, upc, ui, wk, wg, owg, ppc, emitted,
                frame, unswapped, quit>>

\* wg.Wait() of main's loop returns.
MainWait ==
  /\ pc = "mWait"
  /\ WaitDone(owg)
  /\ pc' = "mSwap"
  /\ UNCHANGED <<config, aux, grid, nextGrid, upc, ui, wk, wg, owg, ppc, emitted,
                frame, unswapped, quit>>

\* game.Swap() at the end of main's loop body.
MainSwap ==
  /\ pc = "mSwap"
  /\ SwapGrids
  /\ emitted' = 0
  /\ pc' = "mFork"
  /\ frame' = NoFrame
  /\ unswapped' = FALSE
  /\ writers' = NoWriters
  /\ out' = <<>>
  /\ age' = [x \in Xs |-> [y \in Ys |->
               IF grid'[x][y] = DEAD THEN 0 ELSE Min(age[x][y] + 1, 5)]]
  /\ UNCHANGED <<config, upc, ui, wk, wg, owg, ppc, quit, readBuf, err>>

(* ------------------------------- Next --------------------------------- *)
Next ==
  \/ MainStart
  \/ VisQuit
  \/ VisUpdate
  \/ VisDraw
  \/ VisSwap
  \/ MainForkPresent
  \/ MainForkUpdate
  \/ Present
  \/ MainUpdateDone
  \/ MainWait
  \/ MainSwap
  \/ Spawn
  \/ SpawnEnd
  \/ \E i \in Workers : WorkerCell(i)
  \/ \E i \in Workers : WorkerDone(i)
  \/ UpdateReturn

Spec == Init /\ [][Next]_vars

SpecConfig == InitConfig /\ [][Next]_vars

SpecFail == InitFail /\ [][Next]_vars

SpecSlices == InitSlices /\ [][Next]_vars

(* ------------------------- the 5 x 5 scenario ------------------------- *)
\* All Empty except Blue at (1,1) and (1,2) and Orange at (2,1).
Scenario ==
  [x \in 0..4 |-> [y \in 0..4 |->
     IF <<x, y>> \in {<<1, 1>>, <<1, 2>>} THEN BLUE
     ELSE IF <<x, y>> = <<2, 1>> THEN ORANGE
     ELSE EMPTY]]

\* The program as compiled, with gridWidth = gridHeight = 5 and the random
\* fill of NewGame giving the scenario.
InitScenario ==
  /\ visualOut = VISUAL_OUT
  /\ protocol = PROTOCOL
  /\ canFail = FALSE
  /\ numCPU \in 1..MaxCPU
  /\ grid = Scenario
  /\ NewGame(5, 5)

SpecScenario == InitScenario /\ [][Next]_vars

(* ====================== properties of the program ===================== *)
\* The eight offsets of the Moore neighbourhood.
Offsets == {d \in (-1..1) \X (-1..1) : d # <<0, 0>>}

\* The number of offsets whose toroidal position holds colour.
Neighbours(g, x, y, colour) ==
  Cardinality({d \in Offsets : g[(x + d[1]) % W][(y + d[2]) % H] = colour})

Total(g, x, y) == Neighbours(g, x, y, BLUE) + Neighbours(g, x, y, ORANGE)

\* Update has returned and its result has not been swapped in yet.
UpdateReturned == upc = "ret"

\* The step is a call of Swap.
SwapStep == pc \in {"vSwap", "mSwap"} /\ pc' # pc

\* Sequential application of the rule to every cell.
SeqNext(g) == [x \in Xs |-> [y \in Ys |-> CellNext(g, W, H, x, y)]]

\* C1: when Update has returned, every cell that is Blue or Orange in the
\* current grid has, in the next grid, its own state if its live neighbour
\* total is within 3..5 and Dead otherwise.
C1_SurvivalRule ==
  UpdateReturned =>
    \A x \in Xs, y \in Ys :
      grid[x][y] \in {BLUE, ORANGE} =>
        nextGrid[x][y] = IF 3 <= Total(grid, x, y) /\ Total(grid, x, y) <= 5
                         THEN grid[x][y] ELSE DEAD

\* C2: whatever the worker count and the interleaving, the next grid Update
\* returns is the sequential application of the rule to every cell of the
\* current grid, so any two worker counts give the same next grid.
C2_ParallelEqualsSequential == UpdateReturned => nextGrid = SeqNext(grid)

\* C2 witness: an Update with 2 workers over 3 rows (the remainder case)
\* has returned a grid that differs from what the buffer held before.
C2_Witness ==
  /\ UpdateReturned
  /\ numCPU = 2
  /\ W = 3
  /\ nextGrid = SeqNext(grid)
  /\ nextGrid[2] # ZeroGrid(W, H)[2]

\* C3: when Update has returned, every cell that is Empty in the current
\* grid is, in the next grid, Blue if it has exactly 3 live neighbours and
\* more Blue than Orange ones, Orange if it has exactly 3 and not more Blue,
\* and Empty if its total is not 3.
C3_BirthRule ==
  UpdateReturned =>
    \A x \in Xs, y \in Ys :
      grid[x][y] = EMPTY =>
        nextGrid[x][y] =
          IF Total(grid, x, y) = 3
          THEN IF Neighbours(grid, x, y, BLUE) > Neighbours(grid, x, y, ORANGE)
               THEN BLUE ELSE ORANGE
          ELSE EMPTY

\* C3 witness: one returned Update holds an Empty cell with 1 Blue and 2
\* Orange neighbours that became Orange, one with 2 Blue and 1 Orange that
\* became Blue, or the grid holds such cells one by one; here the first two.
C3_Witness ==
  /\ UpdateReturned
  /\ \E x \in Xs, y \in Ys :
        /\ grid[x][y] = EMPTY
        /\ Neighbours(grid, x, y, BLUE) = 1
        /\ Neighbours(grid, x, y, ORANGE) = 2
        /\ nextGrid[x][y] = ORANGE
  /\ \E x \in Xs, y \in Ys :
        /\ grid[x][y] = EMPTY
        /\ Neighbours(grid, x, y, BLUE) = 2
        /\ Neighbours(grid, x, y, ORANGE) = 1
        /\ nextGrid[x][y] = BLUE

\* The decay order across one generation.
DecaySuccessor(cell) ==
  IF cell = DEAD THEN DEAD + 1
  ELSE IF cell = DEAD + 1 THEN DEAD + 2
  ELSE IF cell = DEAD + 2 THEN DEAD + 3
  ELSE EMPTY

\* C4: the current grid changes only by Swap, and across every Swap a Dead
\* cell becomes Dead1, a Dead1 cell Dead2, a Dead2 cell Dead3 and a Dead3
\* cell Empty, whatever its neighbours hold: a Dead cell is Dead1, Dead2,
\* Dead3, Empty over the next four Update+Swap cycles.
C4_DecayDeterminism ==
  [][/\ ~SwapStep => grid' = grid
     /\ SwapStep =>
          \A x \in Xs, y \in Ys :
            grid[x][y] >= DEAD => grid'[x][y] = DecaySuccessor(grid[x][y])]_vars

\* C4 witness: just after a Swap, a cell that was Dead3 (and so Dead four
\* generations ago) is Empty while one of its neighbours is alive.
C4_Witness ==
  /\ pc \in {"vPoll", "mFork"}
  /\ \E x \in Xs, y \in Ys :
        /\ nextGrid[x][y] = DEAD + 3
        /\ grid[x][y] = EMPTY
        /\ Total(nextGrid, x, y) > 0

\* C5: for every coordinate of the current grid CountNeighbors returns the
\* numbers of Blue and of Orange cells among the 8 toroidal positions of the
\* Moore neighbourhood, cells that are Empty or decaying adding to neither;
\* (0,0) counts (W-1,H-1) and (W-1,0) counts (0,0).  Every generation's grid
\* is the current grid at the head of a driver loop, where this is stated.
C5_ToroidalCount ==
  pc \in {"main", "vPoll", "mFork"} =>
  /\ \A x \in Xs, y \in Ys :
        CountNeighbors(grid, W, H, x, y) =
          [blue |-> Neighbours(grid, x, y, BLUE),
           orange |-> Neighbours(grid, x, y, ORANGE)]
  /\ grid[W - 1][H - 1] = BLUE => CountNeighbors(grid, W, H, 0, 0).blue >= 1
  /\ grid[W - 1][H - 1] = ORANGE => CountNeighbors(grid, W, H, 0, 0).orange >= 1
  /\ grid[0][0] = BLUE => CountNeighbors(grid, W, H, W - 1, 0).blue >= 1
  /\ grid[0][0] = ORANGE => CountNeighbors(grid, W, H, W - 1, 0).orange >= 1

\* C5 witness: at the head of a driver loop, on a grid at least 2 wide,
\* (W-1,H-1) is Blue and counted by (0,0), (0,0) is Orange and counted by
\* (W-1,0), and a decaying cell is in none of the counts of (0,0).
C5_Witness ==
  /\ pc \in {"vPoll", "mFork"}
  /\ W >= 2
  /\ grid[W - 1][H - 1] = BLUE
  /\ grid[0][0] = ORANGE
  /\ \E x \in Xs, y \in Ys : grid[x][y] >= DEAD
  /\ CountNeighbors(grid, W, H, 0, 0).blue >= 1
  /\ CountNeighbors(grid, W, H, W - 1, 0).orange >= 1
  /\ CountNeighbors(grid, W, H, 0, 0).blue + CountNeighbors(grid, W, H, 0, 0).orange < 8

NoWorkerRuns == \A i \in Workers : wk[i].st # "run"

\* C6: while a worker of Update runs, Update has not returned and the driver
\* is inside its call of Update or its Wait, so it neither swaps nor starts
\* another Update; and while the result of an Update awaits its Swap no
\* Update is in progress, so the next Update starts only after that Swap.
C6_BarrierOrdering ==
  /\ upc \in {"ret", "idle"} => NoWorkerRuns
  /\ upc # "idle" => pc \in {"vUpdate", "mWait"}
  /\ pc \in {"vSwap", "mSwap"} => NoWorkerRuns /\ upc = "idle" /\ unswapped
  /\ unswapped => upc \in {"ret", "idle"}

\* C6 witness: main's loop is about to Swap the result of an Update that ran
\* 2 workers, after an earlier generation has been swapped in.
C6_Witness ==
  /\ pc = "mSwap"
  /\ numCPU = 2
  /\ W >= 2
  /\ unswapped
  /\ NoWorkerRuns
  /\ nextGrid = SeqNext(grid)
  /\ \E x \in Xs, y \in Ys : grid[x][y] > DEAD

\* C7: every cell of the current grid holds one of the values 0..6, and
\* across every Swap a cell is Dead only if it was Blue or Orange, and is
\* Dead1, Dead2 or Dead3 only if it was Dead, Dead1 or Dead2.
C7_CellStates ==
  /\ [](\A x \in Xs, y \in Ys : grid[x][y] \in 0..DEAD3)
  /\ [][SwapStep =>
          \A x \in Xs, y \in Ys :
            /\ grid'[x][y] = DEAD => grid[x][y] \in {BLUE, ORANGE}
            /\ grid'[x][y] > DEAD => grid[x][y] = grid'[x][y] - 1]_vars

\* C7 witness: just after a Swap one cell is Dead and was alive, another is
\* in a later decay step and was in the step before it, and a cell that was
\* Empty is Empty or alive.
C7_Witness ==
  /\ pc \in {"vPoll", "mFork"}
  /\ \E x \in Xs, y \in Ys :
        grid[x][y] = DEAD /\ nextGrid[x][y] \in {BLUE, ORANGE}
  /\ \E x \in Xs, y \in Ys :
        grid[x][y] > DEAD /\ nextGrid[x][y] = grid[x][y] - 1
  /\ \E x \in Xs, y \in Ys :
        nextGrid[x][y] = EMPTY /\ grid[x][y] \in {EMPTY, BLUE, ORANGE}

\* C8: on the 5 x 5 scenario grid CountNeighbors gives cell (2,2) 2 Blue and
\* 1 Orange neighbours, and after one Update and Swap, when the scenario is
\* the buffer swapped out, cell (2,2) is Blue and cell (0,0) is Empty.
C8_Scenario ==
  /\ grid = Scenario =>
        CountNeighbors(grid, W, H, 2, 2) = [blue |-> 2, orange |-> 1]
  /\ (pc \in {"vPoll", "mFork"} /\ nextGrid = Scenario) =>
        grid[2][2] = BLUE /\ grid[0][0] = EMPTY

\* C8 witness: the first Swap of the scenario run has been made.
C8_Witness ==
  /\ pc = "vPoll"
  /\ nextGrid = Scenario
  /\ grid[2][2] = BLUE
  /\ grid[0][0] = EMPTY

\* C9: once visualize has observed the quit event or the pressed Escape, no
\* step starts or advances an Update, swaps the grids or emits a frame.
C9_QuitEndsProcess ==
  [][quit => /\ upc' = upc
             /\ grid' = grid
             /\ nextGrid' = nextGrid
             /\ emitted' = emitted]_vars

\* C10 as claimed: with an encoder selected, whether or not visualization is
\* enabled, every generation has been handed to the encoder exactly once
\* when the driver swaps.
C10_EveryGenerationEmitted ==
  (pc \in {"vSwap", "mSwap"} /\ protocol # "Off") => emitted = 1

\* C10 as amended: with an encoder selected, every generation driven by
\* main's loop has been handed to the encoder exactly once, as the current
\* grid, when main swaps in the next grid computed from it; no generation is
\* handed over twice, and the visualization loop hands none over.
C10_MainLoopEmitsOnce ==
  /\ emitted <= 1
  /\ (pc = "mSwap" /\ protocol # "Off") =>
        emitted = 1 /\ frame = grid /\ nextGrid = SeqNext(grid)
  /\ (pc = "mSwap" /\ protocol = "Off") => emitted = 0 /\ frame = NoFrame
  /\ pc \in {"vPoll", "vUpdate", "vSwap"} => emitted = 0 /\ frame = NoFrame

\* C10 witness: visualization is disabled, an encoder is selected, and main
\* is about to Swap a generation later than the first, emitted once.
C10_Witness ==
  /\ ~visualOut
  /\ protocol # "Off"
  /\ pc = "mSwap"
  /\ emitted = 1
  /\ frame = grid
  /\ \E x \in Xs, y \in Ys : grid[x][y] >= DEAD

(* ---------------------------- C11 .. C20 ------------------------------ *)
\* Some worker of the running Update can still write the next grid.
WorkerRuns == \E i \in Workers : wk[i].st = "run"

\* C11: in both driver loops the renderer or encoder never reads a buffer an
\* update worker can write at the same time.  While an encoder reads, it reads
\* the buffer of the current grid, which is not the buffer the workers write,
\* the grid it was handed is unchanged, and the driver has not reached the
\* Swap of that generation; while a worker can write, the driver is not at a
\* Swap; and Draw is entered only when no worker runs.
C11_PhaseIsolation ==
  /\ ppc = "reading" =>
        /\ readBuf = gridBuf
        /\ readBuf # nextBuf
        /\ frame = grid
        /\ pc \in {"mFork2", "mWait"}
  /\ WorkerRuns => pc \notin {"vSwap", "mSwap"} /\ gridBuf # nextBuf
  /\ (pc = "vUpdate" /\ upc = "ret") => ~WorkerRuns
  /\ pc = "vSwap" => ~WorkerRuns /\ ppc = "idle"

\* C11 witness: an encoder is reading the current grid of a generation later
\* than the first while, of two workers, one still runs and cells of the
\* next grid have been written.
C11_Witness ==
  /\ ppc = "reading"
  /\ numCPU = 2
  /\ WorkerRuns
  /\ \E x \in Xs, y \in Ys : writers[x][y] # <<>>
  /\ \E x \in Xs, y \in Ys : grid[x][y] >= DEAD

\* The encoder of this generation has made its last Write.
Encoded(p) == protocol = p /\ emitted = 1 /\ ppc \in {"idle", "panic"}

\* C12: a dense-cells frame is exactly H * W bytes, and the byte at offset
\* y * W + x is the raw state of cell (x, y) of the grid handed to the
\* encoder.
C12_DenseCellsLayout ==
  Encoded("DenseCells") =>
    /\ Len(out) = H * W
    /\ \A x \in Xs, y \in Ys : out[(y * W) + x + 1] = frame[x][y]

\* The cell a sparse-pixel word decodes to: x from bits 0-11, y from bits
\* 12-23, the state from bits 24-31 of the little-endian word.
Decode(word) ==
  LET low == word[1] + (256 * word[2]) + (65536 * word[3])
  IN <<low % 4096, (low \div 4096) % 4096, word[4]>>

\* The i-th 4-byte word of a byte sequence.
Word(bytes, i) == SubSeq(bytes, (4 * i) - 3, 4 * i)

\* The cells of g that are not Empty, with their states.
NonEmpty(g) ==
  {<<x, y, g[x][y]>> : x \in Xs, y \in Ys} \ {<<x, y, EMPTY>> : x \in Xs, y \in Ys}

\* C13: a sparse-pixel frame is a sequence of 4-byte words; the last is
\* 0xFFFFFFFF and no other word is; decoding the others gives exactly the
\* non-Empty cells of the grid handed to the encoder, each once.
C13_SparseRoundTrip ==
  Encoded("SparsePixels") =>
    LET n == Len(out) \div 4
    IN /\ Len(out) = 4 * n
       /\ n >= 1
       /\ Word(out, n) = <<255, 255, 255, 255>>
       /\ \A i \in 1..(n - 1) : Word(out, i) # <<255, 255, 255, 255>>
       /\ {Decode(Word(out, i)) : i \in 1..(n - 1)} = NonEmpty(frame)
       /\ n - 1 = Cardinality(NonEmpty(frame))

\* C13 witness: a sparse-pixel frame of a grid with an Empty cell, a
\* decaying cell and a non-Empty cell off the origin has been written.
C13_Witness ==
  /\ Encoded("SparsePixels")
  /\ Len(out) >= 12
  /\ \E x \in Xs, y \in Ys : frame[x][y] = EMPTY
  /\ \E x \in Xs, y \in Ys : frame[x][y] >= DEAD
  /\ \E x \in Xs, y \in Ys : frame[x][y] # EMPTY /\ x + y > 0

\* C14: once a Write of an encoder has failed, no further frame bytes are
\* written to stdout: the driver has terminated or knows of the failure.
C14_NoOutputAfterFailure ==
  [][err = "write" => (out' = out \/ out' = <<>>)]_vars

\* C15: Draw puts each cell in the point group of its own state among Blue,
\* Orange, Dead, Dead1 and Dead2, and cells that are Dead3 or Empty in none.
C15_DrawClasses ==
  pc = "vSwap" =>
    \A x \in Xs, y \in Ys :
      /\ <<x, y>> \in Draw(grid).bluePoints <=> grid[x][y] = BLUE
      /\ <<x, y>> \in Draw(grid).orangePoints <=> grid[x][y] = ORANGE
      /\ <<x, y>> \in Draw(grid).blackPoints <=> grid[x][y] = DEAD
      /\ <<x, y>> \in Draw(grid).darkPoints <=> grid[x][y] = DEAD + 1
      /\ <<x, y>> \in Draw(grid).greyPoints <=> grid[x][y] = DEAD + 2

\* C16: for every width N and worker count P, the slices
\* [i * (N div P), (i + 1) * (N div P)) of the workers before the last and
\* [(P - 1) * (N div P), N) of the last are contiguous and pairwise disjoint
\* and cover exactly the rows 0..N-1, and they are the slices the spawned
\* workers run over.
C16_SlicePartition ==
  /\ \A i \in Workers :
        /\ startRow(i, W, numCPU) = i * (W \div numCPU)
        /\ startRow(i, W, numCPU) <= endRow(i, W, numCPU)
        /\ i < numCPU - 1 =>
              /\ endRow(i, W, numCPU) = (i + 1) * (W \div numCPU)
              /\ endRow(i, W, numCPU) = startRow(i + 1, W, numCPU)
  /\ startRow(0, W, numCPU) = 0
  /\ endRow(numCPU - 1, W, numCPU) = W
  /\ \A r \in Xs :
        Cardinality({i \in Workers : /\ startRow(i, W, numCPU) <= r
                                     /\ r < endRow(i, W, numCPU)}) = 1
  /\ \A i \in Workers :
        wk[i].st = "run" =>
          /\ wk[i].end = endRow(i, W, numCPU)
          /\ startRow(i, W, numCPU) <= wk[i].x
          /\ wk[i].x <= wk[i].end

\* C16 witness: more than two workers that do not divide the width have all
\* been spawned on their slices, the last one with the remainder.
C16_Witness ==
  /\ numCPU > 2
  /\ W > numCPU
  /\ W % numCPU # 0
  /\ upc = "wait"
  /\ \A i \in Workers : wk[i].st = "run" /\ wk[i].x = startRow(i, W, numCPU)

\* The worker whose slice holds row x.
Owner(x) ==
  CHOOSE i \in Workers :
    startRow(i, W, numCPU) <= x /\ x < endRow(i, W, numCPU)

\* C17: during an Update no cell of the next grid is written twice, and
\* whoever wrote it is the worker whose slice holds its row; when Update
\* returns every cell has been written exactly once, so the next grid holds
\* the successor of every cell and nothing of what it held before.
C17_WrittenOnce ==
  /\ \A x \in Xs, y \in Ys :
        /\ Len(writers[x][y]) <= 1
        /\ writers[x][y] # <<>> => writers[x][y] = <<Owner(x)>>
  /\ UpdateReturned =>
        \A x \in Xs, y \in Ys :
          /\ Len(writers[x][y]) = 1
          /\ nextGrid[x][y] = CellNext(grid, W, H, x, y)

\* C17 witness: an Update by two workers has returned in a generation later
\* than the second; the next grid held the generation before the current one
\* and a cell of it that was Dead now holds Dead2.
C17_Witness ==
  /\ UpdateReturned
  /\ numCPU = 2
  /\ W >= 2
  /\ \E x \in Xs, y \in Ys :
        /\ grid[x][y] = DEAD + 1
        /\ nextGrid[x][y] = DEAD + 2
        /\ writers[x][y] = <<Owner(x)>>
  /\ \E x \in Xs, y \in Ys : writers[x][y] = <<0>>
  /\ \E x \in Xs, y \in Ys : writers[x][y] = <<1>>

\* C18: no step of a worker, and no step taken between the call of Update
\* and its return, changes the current grid or makes another buffer the
\* current one: the grid Update returns with is the grid it was called with.
C18_CurrentGridReadOnly ==
  [][(upc \in {"spawn", "wait"} \/ wk' # wk) =>
       (grid' = grid /\ gridBuf' = gridBuf)]_vars

\* C18 witness: an Update by two workers over two or more rows has
\* returned; the next grid has a cell that died and a cell that moved on to
\* Dead1, and the current grid still holds the one alive and the other Dead.
C18_Witness ==
  /\ UpdateReturned
  /\ numCPU = 2
  /\ W >= 2
  /\ \E x \in Xs, y \in Ys :
        grid[x][y] \in {BLUE, ORANGE} /\ nextGrid[x][y] = DEAD
  /\ \E x \in Xs, y \in Ys :
        grid[x][y] = DEAD /\ nextGrid[x][y] = DEAD + 1

\* C19: Swap exchanges the two buffers and nothing else.  Across every Swap
\* the current grid becomes the buffer, with the cells, that was the next
\* grid, and the reverse; in every state the two are distinct buffers of the
\* dimensions W x H; and a second Swap gives back the assignment before the
\* first.
C19_SwapExchanges ==
  /\ [](/\ gridBuf # nextBuf
        /\ DOMAIN grid = Xs /\ DOMAIN nextGrid = Xs
        /\ \A x \in Xs : DOMAIN grid[x] = Ys /\ DOMAIN nextGrid[x] = Ys
        /\ Swap(Game) # Game
        /\ Swap(Swap(Game)) = Game)
  /\ [][SwapStep =>
          /\ grid' = nextGrid /\ nextGrid' = grid
          /\ gridBuf' = nextBuf /\ nextBuf' = gridBuf]_vars

\* C19 witness: at the head of a driver loop, after two Swaps or more, the
\* buffers are assigned as NewGame assigned them and hold two different
\* generations.
C19_Witness ==
  /\ pc \in {"vPoll", "mFork"}
  /\ gridBuf = "A"
  /\ nextBuf = "B"
  /\ grid # nextGrid
  /\ \E x \in Xs, y \in Ys : grid[x][y] > DEAD

\* The grid g without its cells that became Dead less than four generations
\* ago.
WithoutDecaying(g) ==
  [x \in Xs |-> [y \in Ys |-> IF age[x][y] <= 3 THEN EMPTY ELSE g[x][y]]]

\* C20: a cell that became Dead in generation k is Dead, Dead1, Dead2, Dead3
\* and Empty in the generations k .. k+4, so it is Blue or Orange in none of
\* them and k+5 is the first in which it can be alive again; and during
\* k .. k+3 it adds to no neighbour count: every count of the grid is the
\* count of the grid without those cells.
C20_DeadWindow ==
  /\ \A x \in Xs, y \in Ys :
        age[x][y] <= 4 =>
          /\ grid[x][y] \notin {BLUE, ORANGE}
          /\ grid[x][y] = IF age[x][y] = 4 THEN EMPTY ELSE DEAD + age[x][y]
  /\ pc \in {"vPoll", "mFork"} =>
        \A x \in Xs, y \in Ys :
          CountNeighbors(grid, W, H, x, y) =
            CountNeighbors(WithoutDecaying(grid), W, H, x, y)

\* C20 witness: at the head of a driver loop a cell that became Dead three
\* generations ago is Dead3 next to a live cell, whose count leaves it out.
C20_Witness ==
  /\ pc \in {"vPoll", "mFork"}
  /\ \E x \in Xs, y \in Ys :
        /\ age[x][y] = 3
        /\ grid[x][y] = DEAD + 3
        /\ Total(grid, x, y) > 0
        /\ Total(WithoutDecaying(grid), x, y) = Total(grid, x, y)

====
